---- MODULE Spec2Model ----
(***************************************************************************)
(* Model of src/solution/async-sorted-merge.js: the SourceReader (the      *)
(* concurrent puller), the LogSorter (the time-bucketing merger) and the   *)
(* exported entry point that wires them to the printer.                    *)
(*                                                                         *)
(* One action is one synchronous run of JavaScript between two suspension  *)
(* points: the synchronous part of module.exports (Start), the completion  *)
(* of one worker promise (Complete), the continuation of SourceReader.start*)
(* after `await Promise.any` (HandleData / HandleDrained) and the          *)
(* continuation of module.exports after `await sorter.start()` (Finish).   *)
(***************************************************************************)
EXTENDS Integers, Sequences, FiniteSets, TLC

\* ---------------------------------------------------------------- bounds
MaxSources == 2
MaxEntries == 2
MaxDays == 3

\* Dates are counted in hours since midnight UTC of the Epoch day.
HoursPerDay == 24

\* The hours of the day at which an entry may be stamped.
Hours ==
    {8, 20}

\* The calendar day of date 0: <<year, month, day>>.  It is chosen at the
\* end of a month so that the bucket ids of consecutive days are not
\* consecutive numbers.
Epoch ==
    <<2023, 1, 30>>

VARIABLES
    logSources,              \* the input: per source, the dates it will deliver
    failAt,                  \* the input: per source, the popAsync call that rejects (0: none)
    popped,                  \* per source, the number of popAsync calls made
    drained,                 \* per source, its `drained` flag
    workers,                 \* SourceReader.workers: key -> the worker
    rejected,                \* the keys of the workers whose promise has rejected
    counter,                 \* SourceReader.start's `counter`
    pc,                      \* where SourceReader.start stands
    result,                  \* the value Promise.any resolved with
    events,                  \* every notification the reader emitted, in order
    timeBuckets,             \* LogSorter.timeBuckets, in insertion order
    lastBucketUsedBySource,  \* LogSorter.lastBucketUsedBySource
    printed,                 \* every entry given to printer.print, in order
    printerDone,             \* number of printer.done calls
    mainPc                   \* where module.exports stands

vars ==
    <<logSources, failAt, popped, drained, workers, rejected, counter, pc, result,
      events, timeBuckets, lastBucketUsedBySource, printed, printerDone, mainPc>>

\* ------------------------------------------------------------ the inputs
Times ==
    {d * HoursPerDay + h : d \in 0 .. MaxDays - 1, h \in Hours}

IsNonDecreasing(s) ==
    \A a \in 1 .. Len(s) : \A b \in a .. Len(s) : s[a] <= s[b]

\* The sequences of dates one source may deliver: non-decreasing, as the
\* source contract requires.
SourceSeqs ==
    {s \in UNION {[1 .. n -> Times] : n \in 0 .. MaxEntries} : IsNonDecreasing(s)}

SourceLists ==
    UNION {[1 .. n -> SourceSeqs] : n \in 0 .. MaxSources}

Indexes ==
    1 .. Len(logSources)

\* The drained sentinel (`false` in the code), in the shape of a log entry so
\* that it can be compared with one.
DRAINED ==
    [date |-> -1, msg |-> <<0, 0>>]

\* What a popAsync that fails rejects with, in the shape of a log entry so
\* that it can be compared with one.
REJECTED ==
    [date |-> -2, msg |-> <<0, 0>>]

\* The n-th value source i settles popAsync with: its n-th entry, the
\* sentinel once it is exhausted, or a rejection when that call fails.
PopAsync(i, n) ==
    IF failAt[i] = n THEN REJECTED
    ELSE IF n <= Len(logSources[i])
        THEN [date |-> logSources[i][n], msg |-> <<i, n>>]
        ELSE DRAINED

AllEntries ==
    {PopAsync(i, n) : <<i, n>> \in {p \in Indexes \X (1 .. MaxEntries + 1) : p[2] <= Len(logSources[p[1]])}}

\* The `drained` flag of a source after a popAsync call of it has returned
\* (resolved with) `data`: set once the sentinel has been returned.
DrainedAtResolve(d, i, data) ==
    [d EXCEPT ![i] = d[i] \/ (data = DRAINED)]

\* ------------------------------------------------------------ SourceReader
AllSourcesDrained(d) ==
    \A i \in DOMAIN d : d[i]

\* A worker that forgets to remove itself from the map.
DeleteWorker_Keep(w, key) ==
    w

\* this.workers.delete(key)
DeleteWorker(w, key) ==
    [k \in DOMAIN w \ {key} |-> w[k]]

\* A re-issue that tags the new worker with the first source's index instead
\* of the index of the source it fetches from.
SetWorker_FirstIndex(w, key, index, n) ==
    [k \in DOMAIN w \cup {key} |->
        IF k = key THEN [index |-> 1, data |-> PopAsync(index, n)] ELSE w[k]]

\* this.workers.set(key, getNextLog(source, index, key)): the worker calls
\* popAsync at once and stays pending until it resolves.
SetWorker(w, key, index, n) ==
    [k \in DOMAIN w \cup {key} |->
        IF k = key THEN [index |-> index, data |-> PopAsync(index, n)] ELSE w[k]]

NoResult ==
    [index |-> 0, data |-> DRAINED]

\* The loop test and the next `await Promise.any(...)`: Promise.any rejects
\* when none of the promises it is given can fulfil any more (an empty
\* iterable, or rejected promises only), and start() rejects with it.
LoopPc(w, d) ==
    IF AllSourcesDrained(d) THEN "done"
    ELSE IF DOMAIN w \subseteq rejected THEN "failed"
    ELSE "waiting"

\* -------------------------------------------------------------- LogSorter
IsLeap(y) ==
    (y % 4 = 0 /\ y % 100 # 0) \/ y % 400 = 0

DaysInMonth(y, m) ==
    IF m = 2 THEN (IF IsLeap(y) THEN 29 ELSE 28)
    ELSE IF m \in {4, 6, 9, 11} THEN 30
    ELSE 31

NextDay(ymd) ==
    IF ymd[3] < DaysInMonth(ymd[1], ymd[2]) THEN <<ymd[1], ymd[2], ymd[3] + 1>>
    ELSE IF ymd[2] < 12 THEN <<ymd[1], ymd[2] + 1, 1>>
    ELSE <<ymd[1] + 1, 1, 1>>

RECURSIVE AddDays(_, _)
AddDays(ymd, n) ==
    IF n = 0 THEN ymd ELSE AddDays(NextDay(ymd), n - 1)

\* new Date(date) and its UTC year, month (1-based) and day.
UTCDate(date) ==
    AddDays(Epoch, date \div HoursPerDay)

RECURSIVE Digits(_)
Digits(n) ==
    IF n < 10 THEN <<n>> ELSE Append(Digits(n \div 10), n % 10)

\* n.toString().padStart(2, '0')
PadStart2(n) ==
    IF n < 10 THEN <<0, n>> ELSE Digits(n)

RECURSIVE ToNumber(_)
ToNumber(ds) ==
    IF ds = <<>> THEN 0
    ELSE 10 * ToNumber(SubSeq(ds, 1, Len(ds) - 1)) + ds[Len(ds)]

DateToBucketId(date) ==
    LET d == UTCDate(date)
    IN  ToNumber(Digits(d[1]) \o PadStart2(d[2]) \o PadStart2(d[3]))

BucketIndex(buckets, bucketId) ==
    {j \in 1 .. Len(buckets) : buckets[j].id = bucketId}

AddLogToBucket(buckets, bucketId, log) ==
    IF BucketIndex(buckets, bucketId) # {}
        THEN [j \in 1 .. Len(buckets) |->
                IF buckets[j].id = bucketId
                    THEN [buckets[j] EXCEPT !.logs = Append(@, log)]
                    ELSE buckets[j]]
        ELSE Append(buckets, [id |-> bucketId, logs |-> <<log>>])

\* The reduce over lastBucketUsedBySource.values(): the smallest of them.
EarliestDate(last) ==
    CHOOSE e \in {last[i] : i \in DOMAIN last} :
        \A i \in DOMAIN last : e <= last[i]

RECURSIVE Filter(_, _)
Filter(ids, limit) ==
    IF ids = <<>> THEN <<>>
    ELSE IF Head(ids) < limit THEN <<Head(ids)>> \o Filter(Tail(ids), limit)
    ELSE Filter(Tail(ids), limit)

\* A readiness test that also takes the bucket the slowest source is in.
GetReadyBuckets_Inclusive(buckets, last) ==
    Filter([j \in 1 .. Len(buckets) |-> buckets[j].id], EarliestDate(last) + 1)

\* The ids of the ready buckets, in the order timeBuckets.keys() gives them.
GetReadyBuckets(buckets, last) ==
    Filter([j \in 1 .. Len(buckets) |-> buckets[j].id], EarliestDate(last))

\* A sort that moves a log in front of the logs of equal date.
RECURSIVE InsertSorted_Unstable(_, _)
InsertSorted_Unstable(sorted, log) ==
    IF sorted = <<>> THEN <<log>>
    ELSE IF log.date - sorted[Len(sorted)].date <= 0
        THEN Append(InsertSorted_Unstable(SubSeq(sorted, 1, Len(sorted) - 1), log),
                    sorted[Len(sorted)])
    ELSE Append(sorted, log)

\* Array.prototype.sort with (a, b) => a.date - b.date: a stable sort.
RECURSIVE InsertSorted(_, _)
InsertSorted(sorted, log) ==
    IF sorted = <<>> THEN <<log>>
    ELSE IF log.date - sorted[Len(sorted)].date < 0
        THEN Append(InsertSorted(SubSeq(sorted, 1, Len(sorted) - 1), log),
                    sorted[Len(sorted)])
    ELSE Append(sorted, log)

RECURSIVE SortBucketByTimestamp(_)
SortBucketByTimestamp(bucket) ==
    IF bucket = <<>> THEN <<>>
    ELSE InsertSorted(SortBucketByTimestamp(SubSeq(bucket, 1, Len(bucket) - 1)),
                      bucket[Len(bucket)])

PrintBucket(out, bucket) ==
    out \o bucket

DeleteBucket(buckets, bucketId) ==
    SelectSeq(buckets, LAMBDA b : b.id # bucketId)

BucketLogs(buckets, bucketId) ==
    buckets[CHOOSE j \in BucketIndex(buckets, bucketId) : TRUE].logs

\* readyBuckets.forEach(...): sort, print and delete each ready bucket.
RECURSIVE FlushReady(_, _, _)
FlushReady(ready, buckets, out) ==
    IF ready = <<>> THEN [buckets |-> buckets, out |-> out]
    ELSE FlushReady(Tail(ready),
                    DeleteBucket(buckets, Head(ready)),
                    PrintBucket(out, SortBucketByTimestamp(BucketLogs(buckets, Head(ready)))))

SetLastBucket(last, index, bucketId) ==
    [i \in DOMAIN last \cup {index} |-> IF i = index THEN bucketId ELSE last[i]]

\* LogSorter.onData: the buckets, the watermarks and the printer's output
\* after the handler has run.
OnData(entry, buckets, last, out) ==
    LET bucketId == DateToBucketId(entry.data.date)
        added    == AddLogToBucket(buckets, bucketId, entry.data)
        newLast  == SetLastBucket(last, entry.index, bucketId)
        flushed  == FlushReady(GetReadyBuckets(added, newLast), added, out)
    IN  [buckets |-> flushed.buckets, last |-> newLast, out |-> flushed.out]

\* LogSorter.onDrained: it does nothing.
OnDrained(index, buckets, last, out) ==
    [buckets |-> buckets, last |-> last, out |-> out]

\* ------------------------------------------------------------------- Init
InitReader ==
    /\ popped = [i \in Indexes |-> 0]
    /\ drained = [i \in Indexes |-> FALSE]
    /\ workers = <<>>
    /\ rejected = {}
    /\ counter = 0
    /\ pc = "init"
    /\ result = NoResult
    /\ events = <<>>
    /\ timeBuckets = <<>>
    /\ lastBucketUsedBySource = <<>>
    /\ printed = <<>>
    /\ printerDone = 0
    /\ mainPc = "init"

\* The sources deliver their entries and drain; no fetch fails.
Init ==
    /\ logSources \in SourceLists
    /\ failAt = [i \in Indexes |-> 0]
    /\ InitReader

\* The two sources of the worked example: A = [day1@08:00, day1@20:00] and
\* B = [day1@10:00, day2@05:00], day1 being the Epoch day.
ExampleSources ==
    << <<8, 20>>, <<10, HoursPerDay + 5>> >>

InitExample ==
    /\ logSources = ExampleSources
    /\ failAt = [i \in Indexes |-> 0]
    /\ InitReader

\* A single source with three entries.
InitSingle ==
    /\ logSources \in {<<s>> : s \in {t \in [1 .. 3 -> Times] : IsNonDecreasing(t)}}
    /\ failAt = [i \in Indexes |-> 0]
    /\ InitReader

\* A fetch may fail: each source may reject one of the popAsync calls made
\* of it (a call that delivers an entry, or the one that would drain it).
InitFail ==
    /\ logSources \in SourceLists
    /\ failAt \in [Indexes -> 0 .. MaxEntries + 1]
    /\ \A i \in Indexes : failAt[i] <= Len(logSources[i]) + 1
    /\ InitReader

\* ---------------------------------------------------------------- actions
\* A loop that emits `done` at the end of every pass.
WithDone_Always(evs, nextPc) ==
    Append(evs, <<"done">>)

\* The notification(s) that end one pass of the loop: `done` when the loop
\* test fails.
WithDone(evs, nextPc) ==
    IF nextPc = "done" THEN Append(evs, <<"done">>) ELSE evs

\* module.exports up to its first await: reader.start() issues one fetch per
\* source and runs to its first await (or to its end), and only then are the
\* LogSorter's listeners registered.
Start ==
    /\ mainPc = "init"
    /\ LET w == [k \in 0 .. Len(logSources) - 1 |->
                    [index |-> k + 1, data |-> PopAsync(k + 1, 1)]]
           d == [i \in Indexes |-> FALSE]
       IN  /\ workers' = w
           /\ drained' = d
           /\ pc' = LoopPc(w, d)
           /\ events' = WithDone(events, LoopPc(w, d))
    /\ counter' = Len(logSources)
    /\ popped' = [i \in Indexes |-> 1]
    /\ mainPc' = "awaiting"
    /\ UNCHANGED <<logSources, failAt, rejected, result, timeBuckets,
                   lastBucketUsedBySource, printed, printerDone>>

\* A worker's popAsync resolves: the worker removes itself from the map and
\* fulfils.  A pending Promise.any resolves with the first worker to fulfil;
\* a worker that fulfils when no Promise.any is pending is looked at by no one.
Complete(key) ==
    /\ key \in DOMAIN workers
    /\ workers[key].data # REJECTED
    /\ workers' = DeleteWorker(workers, key)
    /\ drained' = DrainedAtResolve(drained, workers[key].index, workers[key].data)
    /\ IF pc = "waiting"
        THEN /\ pc' = "woken"
             /\ result' = workers[key]
        ELSE UNCHANGED <<pc, result>>
    /\ UNCHANGED <<logSources, failAt, rejected, popped, counter, events, timeBuckets,
                   lastBucketUsedBySource, printed, printerDone, mainPc>>

\* A worker's popAsync rejects: `await source.popAsync()` throws, so the
\* worker rejects without removing itself from the map.  Promise.any takes
\* no notice of a rejection while another of its promises can still fulfil;
\* when all of them have rejected it rejects, and start() with it.
Reject(key) ==
    /\ key \in DOMAIN workers \ rejected
    /\ workers[key].data = REJECTED
    /\ rejected' = rejected \cup {key}
    /\ pc' = IF pc = "waiting" /\ DOMAIN workers \subseteq rejected \cup {key}
                THEN "failed" ELSE pc
    /\ UNCHANGED <<logSources, failAt, popped, drained, workers, counter, result,
                   events, timeBuckets, lastBucketUsedBySource, printed,
                   printerDone, mainPc>>

\* The loop body for a result that is an entry, then the loop test.
HandleData ==
    /\ pc = "woken"
    /\ result.data # DRAINED
    /\ LET index == result.index
           n     == popped[index] + 1
           m     == OnData(result, timeBuckets, lastBucketUsedBySource, printed)
           w     == SetWorker(workers, counter, index, n)
       IN  /\ timeBuckets' = m.buckets
           /\ lastBucketUsedBySource' = m.last
           /\ printed' = m.out
           /\ workers' = w
           /\ popped' = [popped EXCEPT ![index] = n]
           /\ pc' = LoopPc(w, drained)
           /\ events' = WithDone(Append(events, <<"data", index, result.data>>), LoopPc(w, drained))
           /\ mainPc' = IF LoopPc(w, drained) = "done" THEN "resolved" ELSE mainPc
    /\ counter' = counter + 1
    /\ result' = NoResult
    /\ UNCHANGED <<logSources, failAt, rejected, drained, printerDone>>

\* The loop body for the drained sentinel, then the loop test.
HandleDrained ==
    /\ pc = "woken"
    /\ result.data = DRAINED
    /\ LET m == OnDrained(result.index, timeBuckets, lastBucketUsedBySource, printed)
       IN  /\ timeBuckets' = m.buckets
           /\ lastBucketUsedBySource' = m.last
           /\ printed' = m.out
    /\ pc' = LoopPc(workers, drained)
    /\ events' = WithDone(Append(events, <<"drained", result.index>>), LoopPc(workers, drained))
    /\ mainPc' = IF LoopPc(workers, drained) = "done" THEN "resolved" ELSE mainPc
    /\ result' = NoResult
    /\ UNCHANGED <<logSources, failAt, rejected, popped, drained, workers, counter,
                   printerDone>>

\* module.exports after `await sorter.start()`.
Finish ==
    /\ mainPc = "resolved"
    /\ printerDone' = printerDone + 1
    /\ mainPc' = "finished"
    /\ UNCHANGED <<logSources, failAt, rejected, popped, drained, workers, counter, pc,
                   result, events, timeBuckets, lastBucketUsedBySource, printed>>

Next ==
    \/ Start
    \/ \E key \in DOMAIN workers : Complete(key)
    \/ HandleData
    \/ HandleDrained
    \/ Finish

Spec ==
    Init /\ [][Next]_vars

\* The program on the worked example.
ExampleSpec ==
    InitExample /\ [][Next]_vars

\* The program on a single source with three entries.
SingleSpec ==
    InitSingle /\ [][Next]_vars

\* The program with sources whose fetches may fail.
NextFail ==
    \/ Next
    \/ \E key \in DOMAIN workers : Reject(key)

FailSpec ==
    InitFail /\ [][NextFail]_vars

\* ------------------------------------------------------- derived notions
\* The sources the reader has emitted `drained` for.
NotifiedDrained ==
    {events[j][2] : j \in {x \in 1 .. Len(events) : events[x][1] = "drained"}}

\* The sources the Merger has not been told are drained.
ActiveSources ==
    Indexes \ NotifiedDrained

\* The number of data and drained notifications emitted so far.
NumCompletionEvents ==
    Cardinality({j \in 1 .. Len(events) : events[j][1] \in {"data", "drained"}})

\* The number of fetches whose popAsync has resolved.
NumCompleted ==
    counter - Cardinality(DOMAIN workers)

HasPendingFetch(i) ==
    \E k \in DOMAIN workers : workers[k].index = i

\* Source i's draining pop has been called (so, when no fetch of it is
\* pending, it has returned the sentinel).
DrainingPopCalled(i) ==
    popped[i] > Len(logSources[i])

BucketIds(buckets) ==
    {buckets[j].id : j \in 1 .. Len(buckets)}

IsSortedByDate(s) ==
    \A a \in 1 .. Len(s) : \A b \in a .. Len(s) : s[a].date <= s[b].date

\* The entries printed by the step from the current state to the next.
NewlyPrinted ==
    {printed'[j] : j \in Len(printed) + 1 .. Len(printed')}

\* The program has come to rest: no promise is pending or about to settle,
\* that is, no action is enabled.
Quiescent ==
    /\ mainPc \notin {"init", "resolved"}
    /\ pc # "woken"
    /\ DOMAIN workers \subseteq rejected

\* ------------------------------------------------------------------ claims
\* C1: when completion is signalled to the Sink (printer.done), the entries
\* the Sink received are exactly the entries of all sources, each once.
C1_PermutationAtCompletion ==
    printerDone > 0 =>
        /\ Len(printed) = Cardinality(AllEntries)
        /\ {printed[j] : j \in 1 .. Len(printed)} = AllEntries

\* C2: at every point the entries emitted to the Sink so far are in
\* non-decreasing order of their dates.
C2_OutputSorted ==
    IsSortedByDate(printed)

\* C3: every fetch that has completed has had its data or drained
\* notification emitted, or is the one result the reader is about to handle:
\* no completed fetch is dropped.
C3_OneNotificationPerFetch ==
    NumCompleted = NumCompletionEvents + (IF pc = "woken" THEN 1 ELSE 0)

\* C4: whenever the reader waits for the next completion, every source that
\* has not returned the drained sentinel has a fetch in the pending set.
C4_NoStarvation ==
    pc = "waiting" =>
        \A i \in Indexes : HasPendingFetch(i) \/ DrainingPopCalled(i)

\* C5: the pending set never holds two fetches of the same source.
C5_OneFetchPerSource ==
    \A k1 \in DOMAIN workers : \A k2 \in DOMAIN workers :
        workers[k1].index = workers[k2].index => k1 = k2

\* C5's case: a re-issued fetch is pending beside another source's fetch.
C5_Witness ==
    /\ Cardinality(DOMAIN workers) >= 2
    /\ \E k \in DOMAIN workers : k >= Len(logSources)

\* C6: when completion is signalled to the Sink, no bucket is left in the
\* bucket table: `done` has flushed them all.
C6_DoneFlushesAll ==
    printerDone > 0 => timeBuckets = <<>>

\* C7: a step never flushes (prints) the entries of a bucket K while, at the
\* flush, some active source has a recorded watermark less than or equal to K.
C7_FlushBelowWatermarks ==
    [][\A e \in NewlyPrinted :
          \A i \in ActiveSources' \cap DOMAIN lastBucketUsedBySource' :
              lastBucketUsedBySource'[i] > DateToBucketId(e.date)]_vars

\* C7's case: a bucket has been flushed while another one is retained.
C7_Witness ==
    /\ printed # <<>>
    /\ timeBuckets # <<>>
    /\ \E i \in ActiveSources : i \in DOMAIN lastBucketUsedBySource

\* C8: a drained source does not hold back flushing: after every
\* notification, no bucket is left whose key is below the smallest watermark
\* of the sources that are still active.
C8_DrainedDoesNotHoldBack ==
    LET act == ActiveSources \cap DOMAIN lastBucketUsedBySource
    IN  act # {} =>
            \A K \in BucketIds(timeBuckets) :
                \E i \in act : lastBucketUsedBySource[i] <= K

\* C9: with zero sources the program does not come to rest before
\* completion has been signalled to the Sink, with nothing emitted.
C9_ZeroSourcesComplete ==
    (Len(logSources) = 0 /\ Quiescent) => (printerDone = 1 /\ printed = <<>>)

\* C10: with sources that all drain and fetches that all complete, the
\* program comes to rest only after the reader has emitted `done` and
\* completion has been signalled to the Sink.
C10_Termination ==
    (Len(logSources) > 0 /\ Quiescent) =>
        (pc = "done" /\ printerDone = 1)

\* C11: printer.done is called exactly once per run (never twice, and the
\* program does not come to rest without it), and nothing is printed after it.
C11_DoneExactlyOnce ==
    /\ [](printerDone <= 1)
    /\ [](Quiescent => printerDone = 1)
    /\ [][printerDone > 0 => printed' = printed]_vars

\* The part of C11 the code keeps: printer.done is never called twice and
\* nothing is printed after it.
C11_NeverTwiceNorPrintAfter ==
    [][/\ printerDone' <= 1
       /\ printerDone > 0 => printed' = printed]_vars

\* C12: once a fetch has failed the pipeline stops: the reader is not left
\* waiting for (and notifying) the other sources' fetches.
C12_FailureStopsPipeline ==
    rejected # {} => pc # "waiting"

\* The data notifications of source i, in the order they were emitted.
DataEventsOf(i) ==
    SelectSeq(events, LAMBDA e : e[1] = "data" /\ e[2] = i)

\* C13: the data notifications of each source carry that source's entries in
\* the order the source produced them: the j-th one carries its j-th entry.
C13_PerSourceFifo ==
    \A i \in Indexes :
        \A j \in 1 .. Len(DataEventsOf(i)) :
            /\ j <= Len(logSources[i])
            /\ DataEventsOf(i)[j][3] = [date |-> logSources[i][j], msg |-> <<i, j>>]

\* C13's case: two notifications of one source with a notification of
\* another source between them.
C13_Witness ==
    \E a \in 1 .. Len(events) : \E b \in a .. Len(events) : \E c \in b .. Len(events) :
        /\ events[a][1] = "data" /\ events[b][1] = "data" /\ events[c][1] = "data"
        /\ events[a][2] = events[c][2]
        /\ events[a][2] # events[b][2]

\* The j-th entry of source i.
Entry(i, j) ==
    [date |-> logSources[i][j], msg |-> <<i, j>>]

\* C14: on the worked example, when completion is signalled the Sink has
\* received exactly day1@08:00(A), day1@10:00(B), day1@20:00(A),
\* day2@05:00(B), in that order.
C14_ExampleOutput ==
    printerDone > 0 =>
        printed = <<Entry(1, 1), Entry(2, 1), Entry(1, 2), Entry(2, 2)>>

\* C15: for a single source with three entries, when completion is signalled
\* the Sink has received exactly those three entries in the source's order,
\* and no entry of the source's last bucket was emitted before the source's
\* drained notification.
C15_SingleSourceOutput ==
    /\ printerDone > 0 => printed = <<Entry(1, 1), Entry(1, 2), Entry(1, 3)>>
    /\ (\A e \in 1 .. Len(events) : events[e] # <<"drained", 1>>) =>
           \A k \in 1 .. Len(printed) :
               DateToBucketId(printed[k].date) # DateToBucketId(logSources[1][3])

\* The sequence is non-decreasing in bucket key.
IsSortedByBucket(s) ==
    \A a \in 1 .. Len(s) : \A b \in a .. Len(s) :
        DateToBucketId(s[a].date) <= DateToBucketId(s[b].date)

\* C16: the Sink's output is ordered at bucket granularity: no entry of a
\* bucket is emitted after an entry of a bucket with a larger key.
C16_BucketOrder ==
    IsSortedByBucket(printed)

\* The part of C16 about a single notification: the buckets it flushes are
\* emitted in ascending key order.
C16_OneFlushAscending ==
    [][IsSortedByBucket(SubSeq(printed', Len(printed) + 1, Len(printed')))]_vars

\* C17: a flushed bucket is never re-created: every data notification
\* carries an entry whose bucket key is above the key of every bucket flushed
\* before that notification.
C17_NoEntryForFlushedBucket ==
    [][\A n \in Len(events) + 1 .. Len(events') :
          events'[n][1] = "data" =>
              \A k \in 1 .. Len(printed) :
                  DateToBucketId(events'[n][3].date) > DateToBucketId(printed[k].date)]_vars

\* The position of the data notification that delivered the entry.
ArrivalOf(evs, entry) ==
    CHOOSE n \in 1 .. Len(evs) : evs[n][1] = "data" /\ evs[n][3] = entry

\* C18: the entries of one flushed bucket are emitted in non-decreasing
\* timestamp order, entries of equal timestamp in the order in which they
\* arrived, and the bucket is no longer in the bucket table afterwards.
C18_FlushedBucketSorted ==
    [][/\ \A a \in Len(printed) + 1 .. Len(printed') :
              \A b \in a + 1 .. Len(printed') :
                  DateToBucketId(printed'[a].date) = DateToBucketId(printed'[b].date) =>
                      /\ printed'[a].date <= printed'[b].date
                      /\ printed'[a].date = printed'[b].date =>
                             ArrivalOf(events', printed'[a]) < ArrivalOf(events', printed'[b])
       /\ \A e \in NewlyPrinted :
              DateToBucketId(e.date) \notin BucketIds(timeBuckets')]_vars

\* C18's case: a flushed bucket held two entries of equal timestamp, and the
\* one of the second source arrived, and was emitted, first.
C18_Witness ==
    \E k \in 1 .. Len(printed) - 1 :
        /\ printed[k].date = printed[k + 1].date
        /\ printed[k].msg[1] = 2
        /\ printed[k + 1].msg[1] = 1
        /\ ArrivalOf(events, printed[k]) < ArrivalOf(events, printed[k + 1])
        /\ DateToBucketId(printed[k].date) \notin BucketIds(timeBuckets)

\* The positions of the drained notifications of source i.
DrainedEventsOf(i) ==
    {n \in 1 .. Len(events) : events[n] = <<"drained", i>>}

\* C19: no source gets more than one drained notification, a source's
\* drained notification comes after its data notifications, and when done
\* is emitted every source has had its drained notification.
C19_OneDrainedBeforeDone ==
    \A i \in Indexes :
        /\ Cardinality(DrainedEventsOf(i)) <= 1
        /\ \A n \in DrainedEventsOf(i) : \A m \in n + 1 .. Len(events) :
               ~(events[m][1] = "data" /\ events[m][2] = i)
        /\ pc = "done" => Cardinality(DrainedEventsOf(i)) = 1

\* The positions of the done notifications.
DoneEvents(evs) ==
    {n \in 1 .. Len(evs) : evs[n] = <<"done">>}

\* C20: done is emitted at most once, and once it has been emitted no
\* notification follows and no fetch is issued.
C20_NothingAfterDone ==
    [][/\ Cardinality(DoneEvents(events')) <= 1
       /\ DoneEvents(events) # {} =>
              /\ events' = events
              /\ counter' = counter
              /\ popped' = popped
              /\ DOMAIN workers' \subseteq DOMAIN workers]_vars

\* C20's case: done was emitted after data and drained notifications, and
\* the program took a further step.
C20_Witness ==
    /\ DoneEvents(events) # {}
    /\ \E n \in 1 .. Len(events) : events[n][1] = "data"
    /\ mainPc = "finished"

====
